---- MODULE Spec2Model ----
(***************************************************************************)
(* PPOAgent (src/Old/ppo.py): the training() driver, optimize_model(),      *)
(* _returns_advantages(), compute_proba_ratio() and adaptative_KL_loss(),   *)
(* for a discrete action space.                                             *)
(*                                                                          *)
(* One behaviour is one call of training() on a freshly constructed agent.  *)
(* The networks and the environment are external: an observation is the     *)
(* pair (number of the env.reset() that started its episode, steps since    *)
(* that reset), a network output is tagged by the rows it was computed from *)
(* and by the number of optimizer steps its weights had received.           *)
(* Reals are kept exact: gamma and beta are fractions, returns are kept in  *)
(* units of 1/gamma.den, KL and d_targ live on an integer grid.             *)
(* Reward normalisation (reward_norm) is off; the advantages and the loss    *)
(* values are not state, nothing below reads them.                          *)
(***************************************************************************)
EXTENDS Integers, Sequences, FiniteSets, TLC

\* ---------------------------------------------------------------- bounds
MaxEpochs == 2
MaxOptimizeEvery == 3
MaxBatch == 2
\* max_episodes * max_steps, the most environment steps of a run
MaxTimesteps == 4
\* the many-episode runs (one-step episodes) that reach the 25-episode cadence
MaxEvalEpisodes == 27

\* ------------------------------------------------------- program constants
EvalPeriod == 25
NumEvalRollouts == 50

\* ------------------------------------------------------------ input sets
LossNames == {"clipped_loss", "adaptative_KL_loss", "A2C_loss", "other"}
Actions == {0, 1}
Rewards == {1}
\* gamma = num/den
Gammas == {[num |-> 9, den |-> 10]}
\* config['beta_KL']
BetaInits == {[num |-> 3, den |-> 1]}
\* config['d_targ'] on the KL grid: 6 puts both band edges (4 and 9) on the grid
DTargs == {6}
\* KL divergences the networks can produce, on the same grid
KLValues == {3, 4, 9, 10}

NoProb == [rows |-> <<>>, theta |-> -1]

VARIABLES
  \* arguments of training() and the configuration
  epochs, optimize_every, max_episodes, max_steps, batch_size, loss_name,
  gamma, d_targ,
  \* position
  pc,
  \* locals of training()
  ep, i, episode_count, timestep_count, solved, rewards_test, obs, action,
  reward, done, epoch,
  \* self.memory
  memory_observations, memory_actions, memory_rewards, memory_dones,
  \* agent state
  probs_list, beta_kl, actor_steps, critic_steps,
  \* the environment: number of reset() calls so far
  env_resets,
  \* locals of optimize_model() and of the loss it calls
  mb_i, next_value, values, returns, prob, old_prob, kl,
  \* history: len(probs_list) when the current optimize trigger fired
  probs_at_trigger

cfgvars == <<epochs, optimize_every, max_episodes, max_steps, batch_size,
             loss_name, gamma, d_targ>>
loopvars == <<ep, i, episode_count, timestep_count, solved, rewards_test>>
stepvars == <<obs, action, reward, done>>
memvars == <<memory_observations, memory_actions, memory_rewards, memory_dones>>
netvars == <<probs_list, beta_kl, actor_steps, critic_steps>>
optvars == <<epoch, mb_i, next_value, values, returns, prob, old_prob, kl,
             probs_at_trigger>>
vars == <<cfgvars, pc, loopvars, stepvars, memvars, netvars, env_resets, optvars>>

\* ------------------------------------------------------------ helpers
Min(a, b) == IF a < b THEN a ELSE b
Ceil(a, b) == (a + b - 1) \div b
\* equality of the fractions a and b
SameFraction(a, b) == a.num * b.den = b.num * a.den

\* ------------------------------------------------------------ Memory
\* len(self.memory)
MemoryLen == Len(memory_observations)

\* self.memory.clear_memory()
ClearMemory ==
  /\ memory_observations' = <<>>
  /\ memory_actions' = <<>>
  /\ memory_rewards' = <<>>
  /\ memory_dones' = <<>>

\* ------------------------------------------------------------ environment
\* env.reset(): the first observation of a new episode
EnvReset(n) == [ep |-> n, t |-> 0]
\* the observation env.step() returns after observation o
EnvNext(o) == [ep |-> o.ep, t |-> o.t + 1]

\* ------------------------------------------------------------ networks
\* value_network(o) with weights that received w optimizer steps
value_network(o, w) == 100 * w + 10 * (o.ep % 10) + o.t
\* actor_network(rows) with weights that received w optimizer steps
actor_network(rows, w) == [rows |-> rows, theta |-> w]

\* ------------------------------------------------- _returns_advantages
\* the loop of lines 97-105 at index k (1-based), building the returns:
\* returns.insert(0, rewards[k] + gamma*last*(1-dones[k])), in units of 1/g.den.
\* The loop assigns next_value = values[k] and never assigns last.
RECURSIVE ReturnsLoop(_, _, _, _, _, _)
ReturnsLoop(k, last, rs, ds, g, acc) ==
  IF k = 0 THEN acc
  ELSE ReturnsLoop(k - 1, last, rs, ds, g,
         <<rs[k] * g.den + g.num * last * (IF ds[k] THEN 0 ELSE 1)>> \o acc)

\* returns of _returns_advantages(values, next_value): last = next_value
ReturnsOf(rs, ds, nv, g) == ReturnsLoop(Len(rs), nv, rs, ds, g, <<>>)

\* ------------------------------------------------- compute_proba_ratio
\* the newest entry instead of the one before it
OldPolicyNewest(pl) == pl[Len(pl)]

\* the old policy picked from the list pl (lines 213-217)
OldPolicy(pl) == IF Len(pl) = 1 THEN pl[1] ELSE pl[Len(pl) - 1]

\* whether this loss calls compute_proba_ratio
UsesRatio(name) == name # "A2C_loss"

\* old.gather(1, actions.view(-1,1)) with one index row per current row:
\* more index rows than old rows raises in every torch build, fewer raise
\* in the builds that demand equal sizes off the gather dimension
GatherOutcomes(oldp, curp) ==
  IF Len(oldp.rows) = Len(curp.rows) THEN {"ok"}
  ELSE IF Len(oldp.rows) < Len(curp.rows) THEN {"raise"}
  ELSE {"ok", "raise"}

\* ------------------------------------------------- adaptative_KL_loss
Half(b) == IF b.num % 2 = 0 THEN [num |-> b.num \div 2, den |-> b.den]
           ELSE [num |-> b.num, den |-> b.den * 2]
Double(b) == IF b.den % 2 = 0 THEN [num |-> b.num, den |-> b.den \div 2]
             ELSE [num |-> b.num * 2, den |-> b.den]

\* the band edges counted as outside the band
BetaUpdateInclusive(b, k, d) ==
  IF 3 * k <= 2 * d THEN Half(b)
  ELSE IF 2 * k >= 3 * d THEN Double(b)
  ELSE b

\* lines 281-284: kl < d_targ/1.5 is 3*kl < 2*d_targ, kl > d_targ*1.5 is 2*kl > 3*d_targ
BetaUpdate(b, k, d) ==
  IF 3 * k < 2 * d THEN Half(b)
  ELSE IF 2 * k > 3 * d THEN Double(b)
  ELSE b

\* the KL values the loop of lines 264-265 can produce: 0 when old_prob is prob
KLOutcomes(oldp, curp) == IF oldp = curp THEN {0} ELSE KLValues

\* ------------------------------------------------- training: predicates
\* the solved flag ignored
EpisodeRunsAlways == TRUE
\* line 137
EpisodeRuns == ~solved
\* the trigger one step early
OptimizeDueEarly(t, n) == (t + 1) % n = 0
\* line 158
OptimizeDue(t, n) == t % n = 0
\* the guard ep > 0 of the 25-episode cadence dropped
EvalDueFromZero(e, m) == e = 1 \/ e % EvalPeriod = 0 \/ e = m - 1
\* line 173
EvalDue(e, m) == e = 1 \/ (e > 0 /\ e % EvalPeriod = 0) \/ e = m - 1

\* ------------------------------------------------- configurations
\* runs of at most MaxTimesteps environment steps, every loss, every
\* epochs / optimize_every / batch_size up to the bounds
SmallConfigs ==
  /\ epochs \in 1..MaxEpochs
  /\ optimize_every \in 1..MaxOptimizeEvery
  /\ batch_size \in 1..MaxBatch
  /\ max_episodes \in 1..MaxTimesteps
  /\ max_steps \in 1..MaxTimesteps
  /\ max_episodes * max_steps <= MaxTimesteps
  /\ loss_name \in LossNames

\* runs of many one-step episodes, an optimize pass of one minibatch per step
EvalConfigs ==
  /\ epochs = 1
  /\ optimize_every = 1
  /\ batch_size = 1
  /\ max_episodes \in 1..MaxEvalEpisodes
  /\ max_steps = 1
  /\ loss_name \in {"clipped_loss"}

Init ==
  /\ SmallConfigs \/ EvalConfigs
  /\ gamma \in Gammas
  /\ d_targ \in DTargs
  /\ beta_kl \in BetaInits
  /\ pc = "episode"
  /\ ep = 0 /\ i = 0 /\ episode_count = 0 /\ timestep_count = 0
  /\ solved = FALSE /\ rewards_test = <<>>
  /\ obs = EnvReset(0) /\ action = 0 /\ reward = 0 /\ done = FALSE
  /\ memory_observations = <<>> /\ memory_actions = <<>>
  /\ memory_rewards = <<>> /\ memory_dones = <<>>
  /\ probs_list = <<>> /\ actor_steps = 0 /\ critic_steps = 0
  /\ env_resets = 0
  /\ epoch = 0 /\ mb_i = 0 /\ next_value = 0 /\ values = <<>> /\ returns = <<>>
  /\ prob = NoProb /\ old_prob = NoProb /\ kl = 0
  /\ probs_at_trigger = 0

\* ------------------------------------------------- training: actions
\* lines 136-139: the episode runs
StartEpisode ==
  /\ pc = "episode" /\ ep < max_episodes /\ EpisodeRuns
  /\ episode_count' = episode_count + 1
  /\ env_resets' = env_resets + 1
  /\ obs' = EnvReset(env_resets + 1)
  /\ i' = 0
  /\ pc' = "observe"
  /\ UNCHANGED <<cfgvars, ep, timestep_count, solved, rewards_test, action,
                 reward, done, memvars, netvars, optvars>>

\* lines 136-137: the episode is skipped
SkipEpisode ==
  /\ pc = "episode" /\ ep < max_episodes /\ ~EpisodeRuns
  /\ pc' = "evaluate"
  /\ UNCHANGED <<cfgvars, loopvars, stepvars, memvars, netvars, env_resets, optvars>>

\* lines 141-143
RecordObservation ==
  /\ pc = "observe"
  /\ timestep_count' = timestep_count + 1
  /\ memory_observations' = Append(memory_observations, obs)
  /\ pc' = "act"
  /\ UNCHANGED <<cfgvars, ep, i, episode_count, solved, rewards_test, stepvars,
                 memory_actions, memory_rewards, memory_dones, netvars,
                 env_resets, optvars>>

\* lines 145-149
SelectAction ==
  /\ pc = "act"
  /\ \E a \in Actions :
       /\ action' = a
       /\ memory_actions' = Append(memory_actions, a)
  /\ pc' = "env"
  /\ UNCHANGED <<cfgvars, loopvars, obs, reward, done, memory_observations,
                 memory_rewards, memory_dones, netvars, env_resets, optvars>>

\* lines 152-155
EnvStep ==
  /\ pc = "env"
  /\ \E r \in Rewards, d \in BOOLEAN :
       /\ reward' = r
       /\ done' = d
       /\ memory_dones' = Append(memory_dones, d)
  /\ obs' = EnvNext(obs)
  /\ pc' = "reward"
  /\ UNCHANGED <<cfgvars, loopvars, action, memory_observations, memory_actions,
                 memory_rewards, netvars, env_resets, optvars>>

\* the reward append left out
RecordRewardDropped ==
  /\ pc = "reward"
  /\ pc' = "check"
  /\ UNCHANGED <<cfgvars, loopvars, stepvars, memvars, netvars, env_resets, optvars>>

\* line 156
RecordReward ==
  /\ pc = "reward"
  /\ memory_rewards' = Append(memory_rewards, reward)
  /\ pc' = "check"
  /\ UNCHANGED <<cfgvars, loopvars, stepvars, memory_observations, memory_actions,
                 memory_dones, netvars, env_resets, optvars>>

\* line 158, taken
TriggerOptimize ==
  /\ pc = "check" /\ OptimizeDue(timestep_count, optimize_every)
  /\ epoch' = 0
  /\ probs_at_trigger' = Len(probs_list)
  /\ pc' = "epoch"
  /\ UNCHANGED <<cfgvars, loopvars, stepvars, memvars, netvars, env_resets,
                 mb_i, next_value, values, returns, prob, old_prob, kl>>

\* line 158, not taken
NoOptimize ==
  /\ pc = "check" /\ ~OptimizeDue(timestep_count, optimize_every)
  /\ pc' = "step_end"
  /\ UNCHANGED <<cfgvars, loopvars, stepvars, memvars, netvars, env_resets, optvars>>

\* lines 160-161 and 288-302: one more epoch, optimize_model up to its loop
BeginOptimize ==
  /\ pc = "epoch" /\ epoch < epochs
  /\ next_value' = value_network(obs, critic_steps)
  /\ values' = [k \in 1..MemoryLen |-> value_network(memory_observations[k], critic_steps)]
  /\ returns' = ReturnsOf(memory_rewards, memory_dones,
                          value_network(obs, critic_steps), gamma)
  /\ mb_i' = 0
  /\ pc' = "minibatch"
  /\ UNCHANGED <<cfgvars, loopvars, stepvars, memvars, netvars, env_resets,
                 epoch, prob, old_prob, kl, probs_at_trigger>>

\* a stride of one row instead of batch_size
NextBatchStartByOne(k, b) == k + 1

\* line 304: range(0, returns.size()[0], batch_size), the start after k
NextBatchStart(k, b) == k + b

\* the rows of the minibatch that starts at mb_i (lines 308-309)
BatchRows == SubSeq(memory_observations, mb_i + 1, Min(mb_i + batch_size, MemoryLen))

\* lines 304-368: one minibatch whose loss is computed
MinibatchStep ==
  /\ pc = "minibatch" /\ mb_i < Len(returns)
  /\ LET p == actor_network(BatchRows, actor_steps)
         pl == Append(probs_list, p)
         o == IF UsesRatio(loss_name) THEN OldPolicy(pl) ELSE NoProb
     IN /\ UsesRatio(loss_name) => "ok" \in GatherOutcomes(o, p)
        /\ probs_list' = pl
        /\ prob' = p
        /\ old_prob' = o
        /\ IF loss_name = "adaptative_KL_loss"
           THEN \E k \in KLOutcomes(o, p) :
                  /\ kl' = k
                  /\ beta_kl' = BetaUpdate(beta_kl, k, d_targ)
           ELSE UNCHANGED <<kl, beta_kl>>
  /\ critic_steps' = critic_steps + 1
  /\ actor_steps' = actor_steps + 1
  /\ mb_i' = NextBatchStart(mb_i, batch_size)
  /\ UNCHANGED <<cfgvars, pc, loopvars, stepvars, memvars, env_resets, epoch,
                 next_value, values, returns, probs_at_trigger>>

\* lines 304-328 and 231-232: the gather of compute_proba_ratio raises,
\* the exception leaves training()
MinibatchRaises ==
  /\ pc = "minibatch" /\ mb_i < Len(returns)
  /\ UsesRatio(loss_name)
  /\ LET p == actor_network(BatchRows, actor_steps)
         pl == Append(probs_list, p)
     IN /\ "raise" \in GatherOutcomes(OldPolicy(pl), p)
        /\ probs_list' = pl
        /\ prob' = p
        /\ old_prob' = OldPolicy(pl)
  /\ critic_steps' = critic_steps + 1
  /\ pc' = "error"
  /\ UNCHANGED <<cfgvars, loopvars, stepvars, memvars, env_resets, beta_kl,
                 actor_steps, epoch, mb_i, next_value, values, returns, kl,
                 probs_at_trigger>>

\* lines 304 and 370, 162-165: optimize_model returns
EndOptimize ==
  /\ pc = "minibatch" /\ mb_i >= Len(returns)
  /\ epoch' = epoch + 1
  /\ pc' = "epoch"
  /\ UNCHANGED <<cfgvars, loopvars, stepvars, memvars, netvars, env_resets,
                 mb_i, next_value, values, returns, prob, old_prob, kl,
                 probs_at_trigger>>

\* lines 160 and 167: the epochs are over, the buffer is cleared
FinishTrigger ==
  /\ pc = "epoch" /\ epoch >= epochs
  /\ ClearMemory
  /\ pc' = "step_end"
  /\ UNCHANGED <<cfgvars, loopvars, stepvars, netvars, env_resets, optvars>>

\* lines 169-170
BreakEpisode ==
  /\ pc = "step_end" /\ done
  /\ pc' = "evaluate"
  /\ UNCHANGED <<cfgvars, loopvars, stepvars, memvars, netvars, env_resets, optvars>>

\* lines 169 and 141: the next step of the episode
NextStep ==
  /\ pc = "step_end" /\ ~done /\ i + 1 < max_steps
  /\ i' = i + 1
  /\ pc' = "observe"
  /\ UNCHANGED <<cfgvars, ep, episode_count, timestep_count, solved, rewards_test,
                 stepvars, memvars, netvars, env_resets, optvars>>

\* lines 169 and 141: range(max_steps) is exhausted
StepsExhausted ==
  /\ pc = "step_end" /\ ~done /\ i + 1 >= max_steps
  /\ pc' = "evaluate"
  /\ UNCHANGED <<cfgvars, loopvars, stepvars, memvars, netvars, env_resets, optvars>>

\* where the episode loop goes after index e (lines 136, 179)
AfterEpisode(e) == IF e + 1 < max_episodes THEN "episode" ELSE "returned"

\* lines 173-177: the 50 evaluation rollouts, hit says their mean is 500
Evaluate ==
  /\ pc = "evaluate" /\ EvalDue(ep, max_episodes)
  /\ \E hit \in BOOLEAN :
       /\ rewards_test' = Append(rewards_test, [ep |-> ep, hit |-> hit])
       /\ solved' = (solved \/ hit)
  /\ env_resets' = env_resets + NumEvalRollouts
  /\ ep' = ep + 1
  /\ pc' = AfterEpisode(ep)
  /\ UNCHANGED <<cfgvars, i, episode_count, timestep_count, stepvars, memvars,
                 netvars, optvars>>

\* line 173, not taken
NoEvaluate ==
  /\ pc = "evaluate" /\ ~EvalDue(ep, max_episodes)
  /\ ep' = ep + 1
  /\ pc' = AfterEpisode(ep)
  /\ UNCHANGED <<cfgvars, i, episode_count, timestep_count, solved, rewards_test,
                 stepvars, memvars, netvars, env_resets, optvars>>

Next ==
  \/ StartEpisode
  \/ SkipEpisode
  \/ RecordObservation
  \/ SelectAction
  \/ EnvStep
  \/ RecordReward
  \/ TriggerOptimize
  \/ NoOptimize
  \/ BeginOptimize
  \/ MinibatchStep
  \/ MinibatchRaises
  \/ EndOptimize
  \/ FinishTrigger
  \/ BreakEpisode
  \/ NextStep
  \/ StepsExhausted
  \/ Evaluate
  \/ NoEvaluate

Spec == Init /\ [][Next]_vars

\* =================================================================
\* Claims
\* =================================================================
CollectingPcs == {"observe", "act", "env", "reward", "check", "step_end"}
OptimizingPcs == {"epoch", "minibatch"}
\* the state right after an optimize trigger: its epochs ran and the buffer was cleared
TriggerDone == pc = "step_end" /\ OptimizeDue(timestep_count, optimize_every)
BufferEmpty ==
  /\ Len(memory_observations) = 0 /\ Len(memory_actions) = 0
  /\ Len(memory_rewards) = 0 /\ Len(memory_dones) = 0

\* C1 as stated: one completed optimize trigger leaves the buffer empty and
\* grows probs_list by exactly ceil(optimize_every / batch_size).
C1_Original ==
  TriggerDone =>
    /\ BufferEmpty
    /\ Len(probs_list) = probs_at_trigger + Ceil(optimize_every, batch_size)

\* C1 amended: one completed optimize trigger leaves the buffer empty and grows
\* probs_list by exactly epochs * ceil(optimize_every / batch_size): optimize_model
\* appends one entry per minibatch, and runs once per epoch.
C1_Amended ==
  TriggerDone =>
    /\ BufferEmpty
    /\ Len(probs_list) =
         probs_at_trigger + epochs * Ceil(optimize_every, batch_size)

C1_Witness ==
  /\ TriggerDone
  /\ optimize_every = 3 /\ batch_size = 2 /\ epochs = 2
  /\ Len(probs_list) = 4

\* C2 as stated: in the returns of _returns_advantages, return[k] is
\* reward[k] + gamma * value[k+1] * (1 - done[k]) for every k before the last,
\* and only the last return is built from the bootstrap value (units of 1/gamma.den).
C2_Claim ==
  pc = "minibatch" =>
    \A k \in 1..Len(returns) :
      returns[k] =
        memory_rewards[k] * gamma.den
        + gamma.num * (IF k = Len(returns) THEN next_value ELSE values[k + 1])
                    * (IF memory_dones[k] THEN 0 ELSE 1)

\* C3 as stated: in every reachable state the four buffer fields have equal length.
C3_Original ==
  /\ Len(memory_observations) = Len(memory_actions)
  /\ Len(memory_actions) = Len(memory_rewards)
  /\ Len(memory_rewards) = Len(memory_dones)

\* C3 amended: the four buffer fields have equal length in every state outside
\* the appends of one environment step (before the observation append, from the
\* reward append on, during and after an optimize pass); between the appends the
\* fields appended so far are one longer than the others.
C3_Amended ==
  /\ pc \notin {"act", "env", "reward"} => C3_Original
  /\ pc = "act" =>
       /\ Len(memory_observations) = Len(memory_actions) + 1
       /\ Len(memory_actions) = Len(memory_dones)
       /\ Len(memory_dones) = Len(memory_rewards)
  /\ pc = "env" =>
       /\ Len(memory_observations) = Len(memory_actions)
       /\ Len(memory_actions) = Len(memory_dones) + 1
       /\ Len(memory_dones) = Len(memory_rewards)
  /\ pc = "reward" =>
       /\ Len(memory_observations) = Len(memory_actions)
       /\ Len(memory_actions) = Len(memory_dones)
       /\ Len(memory_dones) = Len(memory_rewards) + 1

C3_Witness ==
  /\ pc = "minibatch" /\ mb_i > 0
  /\ Len(memory_observations) = 3 /\ Len(memory_rewards) = 3

\* the episode indices at which an evaluation was appended to rewards_test
EvalIndices == {rewards_test[k].ep : k \in 1..Len(rewards_test)}
\* the set C4 names: 1, the multiples of 25 below m, and m - 1
ClaimedEvalSet(m) == {1} \cup {e \in 1..(m - 1) : e % 25 = 0} \cup {m - 1}

\* C4 as stated: when training() returns, the evaluation has fired exactly at
\* the indices {1, 25, 50, ..., max_episodes - 1}.
C4_Original ==
  pc = "returned" => EvalIndices = ClaimedEvalSet(max_episodes)

\* C4 amended: the evaluation fires exactly at those of the indices
\* {1, 25, 50, ..., max_episodes - 1} that the loop 0 .. max_episodes-1 visits
\* (index 1 only when max_episodes >= 2), once each, and at no other index.
C4_Amended ==
  /\ EvalIndices \subseteq ClaimedEvalSet(max_episodes) \cap (0..(ep - 1))
  /\ pc = "returned" =>
       /\ EvalIndices = ClaimedEvalSet(max_episodes) \cap (0..(max_episodes - 1))
       /\ Len(rewards_test) = Cardinality(EvalIndices)

C4_Witness ==
  /\ pc = "returned" /\ max_episodes = 27
  /\ EvalIndices = {1, 25, 26}

\* C5: whenever compute_proba_ratio has run, probs_list is non-empty and ends
\* with the current minibatch's policy output, and the old policy is the
\* second-to-last entry when there are >= 2 entries, the sole entry (the current
\* output itself) when there is exactly one.
C5_OldPolicySelection ==
  old_prob # NoProb =>
    /\ Len(probs_list) >= 1
    /\ probs_list[Len(probs_list)] = prob
    /\ Len(probs_list) >= 2 => old_prob = probs_list[Len(probs_list) - 1]
    /\ Len(probs_list) = 1 => old_prob = probs_list[1] /\ old_prob = prob

C5_Witness ==
  /\ old_prob # NoProb /\ Len(probs_list) >= 2
  /\ old_prob # prob

\* a step in which adaptative_KL_loss ran to its end
AdaptiveCall ==
  /\ pc = "minibatch" /\ loss_name = "adaptative_KL_loss"
  /\ actor_steps' = actor_steps + 1

\* C6: a call of adaptative_KL_loss that observes kl sets beta to beta/2 when
\* kl < d_targ/1.5, to beta*2 when kl > d_targ*1.5, and leaves it otherwise (the
\* band edges included); no other step changes beta.
C6_BetaUpdate ==
  [][IF AdaptiveCall
     THEN /\ 3 * kl' < 2 * d_targ =>
               SameFraction(beta_kl', [num |-> beta_kl.num, den |-> 2 * beta_kl.den])
          /\ 2 * kl' > 3 * d_targ =>
               SameFraction(beta_kl', [num |-> 2 * beta_kl.num, den |-> beta_kl.den])
          /\ (3 * kl' >= 2 * d_targ /\ 2 * kl' <= 3 * d_targ) => beta_kl' = beta_kl
     ELSE beta_kl' = beta_kl]_vars

C6_Witness ==
  /\ loss_name = "adaptative_KL_loss" /\ pc = "minibatch"
  /\ 2 * kl = 3 * d_targ
  /\ actor_steps >= 2
  /\ ~SameFraction(beta_kl, [num |-> 3, den |-> 1])

\* C7: once solved, solved stays set and every further step of training() leaves
\* the buffer, episode_count, timestep_count, probs_list and beta unchanged and
\* is no collection or optimization step.
C7_SolvedNoOp ==
  [][solved =>
       /\ solved'
       /\ UNCHANGED <<memvars, episode_count, timestep_count, probs_list, beta_kl,
                      obs, actor_steps, critic_steps>>
       /\ pc' \notin (CollectingPcs \cup OptimizingPcs \cup {"error"})]_vars

C7_Witness ==
  /\ solved /\ pc = "evaluate"
  /\ ep >= 2 /\ ep > rewards_test[Len(rewards_test)].ep
  /\ episode_count < ep

\* C8 as stated: whenever compute_proba_ratio has run, the old policy it picked
\* was computed from the same buffer rows as the current minibatch's output.
C8_Claim ==
  old_prob # NoProb => old_prob.rows = prob.rows

\* the buffered observations are consecutive environment steps, oldest first
ConsecutiveSteps ==
  \A k \in 1..(Len(memory_observations) - 1) :
    LET a == memory_observations[k]
        b == memory_observations[k + 1]
    IN \/ (b.ep = a.ep /\ b.t = a.t + 1)
       \/ (b.ep > a.ep /\ b.t = 0)

\* C9: at the end of every environment step the buffer holds
\* timestep_count mod optimize_every transitions; every optimize pass runs on
\* exactly optimize_every transitions, the most recent consecutive steps; the
\* buffer never holds more than optimize_every transitions.
C9_BufferIsOneSegment ==
  /\ pc = "step_end" => MemoryLen = timestep_count % optimize_every
  /\ pc \in OptimizingPcs =>
       /\ Len(memory_observations) = optimize_every
       /\ Len(memory_rewards) = optimize_every
       /\ ConsecutiveSteps
       /\ obs = EnvNext(memory_observations[Len(memory_observations)])
  /\ Len(memory_observations) <= optimize_every

C9_Witness ==
  /\ pc = "minibatch" /\ optimize_every = 3
  /\ memory_observations[1].ep # memory_observations[3].ep

\* C10 as stated: whenever two consecutive buffered transitions belong to
\* different episodes, the earlier one has done = true.
C10_Claim ==
  \A k \in 1..(Len(memory_observations) - 1) :
    memory_observations[k].ep # memory_observations[k + 1].ep => memory_dones[k]

====
